---- MODULE Spec2Model ----
(***************************************************************************)
(* governance-kit: the overlay merger (overlay.py), the customization      *)
(* detector, the backup step and the init / check commands (cli.py),       *)
(* modelled over an abstract filesystem.                                   *)
(*                                                                         *)
(* Text is a sequence of symbols.  A symbol is one character ("#", " ",    *)
(* "\n", "a" for an ordinary letter) or an atomic chunk of fixed text      *)
(* ("M" is the overlay marker's text after its leading "#", the template   *)
(* placeholders, the fixed lines of the appended block).  Substring tests, *)
(* strip(), split() and concatenation work on these sequences as Python's  *)
(* do on characters.                                                       *)
(***************************************************************************)
EXTENDS Naturals, Sequences, FiniteSets

VARIABLES
    specify_exists,   \* .specify/ (with its memory/ subdirectory) exists
    constitution,     \* .specify/memory/constitution.md, a file record
    gov_exists,       \* .specify/memory/governance/ exists
    gov_files,        \* rule name -> file record, inside governance/
    bundle,           \* rule name -> file record, the packaged rules (read-only)
    backups,          \* the .specify-backup-* directories, a set of snapshots
    doc,              \* the path handed to the detector when it is called alone
    last,             \* the call that ended last
    prev,             \* the call before it
    applied_log,      \* results of the apply_governance_overlay calls, in order
    start,            \* the scaffold as it was before the first call
    ncalls,           \* number of calls so far
    frame             \* the apply call in progress: next statement and locals

fs == <<specify_exists, constitution, gov_exists, gov_files, bundle, backups>>
vars == <<specify_exists, constitution, gov_exists, gov_files, bundle, backups,
          doc, last, prev, applied_log, start, ncalls, frame>>

\* ---------------------------------------------------------------- bounds
MaxDocLen == 2
MaxCalls == 3
MaxInputLen == 3
MaxCmds == 2
MaxStamp == 2
MaxSuffix == 1

\* ------------------------------------------------------------------ text
Min(S) == CHOOSE x \in S : \A y \in S : x <= y

\* sub in s
Contains(s, sub) ==
    \E i \in 0..Len(s) : i + Len(sub) <= Len(s) /\ SubSeq(s, i + 1, i + Len(sub)) = sub

\* s.count(sub): non-overlapping occurrences, scanning from the left
RECURSIVE CountFrom(_, _, _)
CountFrom(s, sub, i) ==
    IF i + Len(sub) - 1 > Len(s) THEN 0
    ELSE IF SubSeq(s, i, i + Len(sub) - 1) = sub
         THEN 1 + CountFrom(s, sub, i + Len(sub))
         ELSE CountFrom(s, sub, i + 1)

count(s, sub) == CountFrom(s, sub, 1)

Whitespace == {" ", "\n"}

RECURSIVE lstrip(_)
lstrip(s) == IF s # <<>> /\ Head(s) \in Whitespace THEN lstrip(Tail(s)) ELSE s

RECURSIVE rstrip(_)
rstrip(s) ==
    IF s # <<>> /\ s[Len(s)] \in Whitespace THEN rstrip(SubSeq(s, 1, Len(s) - 1)) ELSE s

strip(s) == rstrip(lstrip(s))

\* s.split("\n")
RECURSIVE split(_)
split(s) ==
    LET nl == {i \in 1..Len(s) : s[i] = "\n"} IN
    IF nl = {} THEN <<s>>
    ELSE <<SubSeq(s, 1, Min(nl) - 1)>> \o split(SubSeq(s, Min(nl) + 1, Len(s)))

startswith(s, p) == Len(s) >= Len(p) /\ SubSeq(s, 1, Len(p)) = p

\* chr(10).join(parts)
RECURSIVE join(_)
join(parts) ==
    IF parts = <<>> THEN <<>>
    ELSE IF Len(parts) = 1 THEN parts[1]
    ELSE parts[1] \o <<"\n">> \o join(Tail(parts))

\* all sequences over S of length at most n
RECURSIVE SeqsUpTo(_, _)
SeqsUpTo(S, n) ==
    IF n = 0 THEN {<<>>}
    ELSE LET shorter == SeqsUpTo(S, n - 1) IN
         shorter \cup {Append(t, x) : t \in {u \in shorter : Len(u) = n - 1}, x \in S}

\* ----------------------------------------------------------------- files
NoFile == [exists |-> FALSE, readable |-> FALSE, text |-> <<>>]
File(t) == [exists |-> TRUE, readable |-> TRUE, text |-> t]
Unreadable(t) == [exists |-> TRUE, readable |-> FALSE, text |-> t]

\* ------------------------------------------------------------ overlay.py
OVERLAY_MARKER == <<"#", "M">>

rule_files == <<"architecture.md", "stack.md", "process.md">>

Rules == {rule_files[i] : i \in 1..Len(rule_files)}

\* rule_name.replace(".md", "").title()
section_name(rule_name) ==
    CASE rule_name = "architecture.md" -> "Architecture"
      [] rule_name = "stack.md" -> "Stack"
      [] rule_name = "process.md" -> "Process"

\* files("governance") / "rules"
get_rules_dir == bundle

\* the idempotence guard
AlreadyApplied_never(content) == FALSE

AlreadyApplied(content) == Contains(content, OVERLAY_MARKER)

\* the copy loop: a bundled rule overwrites the file of the same name, a rule
\* missing from the bundle is skipped
CopyRules_nothing(gf) == gf

CopyRules(gf) ==
    [r \in Rules |-> IF get_rules_dir[r].exists THEN File(get_rules_dir[r].text) ELSE gf[r]]

\* one titled subsection of a rule file
Section(rule_name, gf) ==
    <<"#", "#", " ", section_name(rule_name), " ", "Governance", "\n", "\n">>
        \o strip(gf[rule_name].text)

Placeholder == <<"#", "#", " ", "Governance Rules", "\n", "\n", "PLACEHOLDER">>

RECURSIVE SectionsFrom(_, _)
SectionsFrom(i, gf) ==
    IF i > Len(rule_files) THEN <<>>
    ELSE (IF gf[rule_files[i]].exists THEN <<Section(rule_files[i], gf)>> ELSE <<>>)
             \o SectionsFrom(i + 1, gf)

\* the placeholder forgotten
Sections_no_placeholder(gf) == SectionsFrom(1, gf)

\* the sections list, with the placeholder when it is empty
Sections(gf) ==
    LET sections == SectionsFrom(1, gf) IN
    IF sections = <<>> THEN <<Placeholder>> ELSE sections

\* "*Governance overlay applied by governance-kit*" and its newline
Attribution == <<"FOOTER", "\n">>

Footer == <<"\n", "\n", "---", "\n">> \o Attribution

governance_section(sections) ==
    <<"\n", "\n">> \o OVERLAY_MARKER \o <<"\n", "\n", "STATEMENT", "\n", "\n">>
        \o join(sections) \o Footer

\* open(constitution, "a").write(block)
AppendText_overwrite(content, block) == block

AppendText(content, block) == content \o block

Outcome(res, con, gx, gf) ==
    [result |-> res, constitution |-> con, gov_exists |-> gx, gov_files |-> gf]

\* the directory made before the constitution is looked for
apply_governance_overlay_mkdir_first(con, gx, gf) ==
    IF ~con.exists THEN Outcome("FileNotFoundError", con, TRUE, gf)
    ELSE IF AlreadyApplied(con.text) THEN Outcome("False", con, TRUE, gf)
    ELSE Outcome("True",
                 File(AppendText(con.text, governance_section(Sections(CopyRules(gf))))),
                 TRUE, CopyRules(gf))

\* the guard taken after the directory is made and the rules are copied
apply_governance_overlay_late_guard(con, gx, gf) ==
    IF ~con.exists THEN Outcome("FileNotFoundError", con, gx, gf)
    ELSE IF AlreadyApplied(con.text) THEN Outcome("False", con, TRUE, CopyRules(gf))
    ELSE Outcome("True",
                 File(AppendText(con.text, governance_section(Sections(CopyRules(gf))))),
                 TRUE, CopyRules(gf))

apply_governance_overlay(con, gx, gf) ==
    IF ~con.exists THEN Outcome("FileNotFoundError", con, gx, gf)
    ELSE IF AlreadyApplied(con.text) THEN Outcome("False", con, gx, gf)
    ELSE Outcome("True",
                 File(AppendText(con.text, governance_section(Sections(CopyRules(gf))))),
                 TRUE, CopyRules(gf))

RECURSIVE MissingRules(_, _)
MissingRules(i, gf) ==
    IF i > Len(rule_files) THEN <<>>
    ELSE (IF gf[rule_files[i]].exists THEN <<>> ELSE <<"Missing rule: " \o rule_files[i]>>)
             \o MissingRules(i + 1, gf)

\* the governance checks left out once the constitution has an issue
check_governance_overlay_short_circuit(con, gx, gf) ==
    IF ~con.exists THEN <<"constitution.md not found">>
    ELSE IF ~Contains(con.text, OVERLAY_MARKER)
         THEN <<"Governance overlay not in constitution.md">>
    ELSE IF ~gx THEN <<"governance/ directory not found">> ELSE MissingRules(1, gf)

check_governance_overlay(con, gx, gf) ==
    (IF ~con.exists THEN <<"constitution.md not found">>
     ELSE IF ~Contains(con.text, OVERLAY_MARKER)
          THEN <<"Governance overlay not in constitution.md">>
          ELSE <<>>)
    \o (IF ~gx THEN <<"governance/ directory not found">> ELSE MissingRules(1, gf))

\* ---------------------------------------------------------------- cli.py
template_markers ==
    << <<"[PROJECT_NAME]">>, <<"[PRINCIPLE_1_NAME]">>, <<"[PRINCIPLE_2_NAME]">>,
       <<"[YOUR_PROJECT]">>, <<"[TEAM_NAME]">>, <<"TODO", ":">>, <<"FIXME", ":">> >>

\* the heading test made on the raw line instead of the stripped one
IsContentLine_unstripped(line) == strip(line) # <<>> /\ ~startswith(line, <<"#">>)

\* the filter of the list comprehension
IsContentLine(line) == strip(line) # <<>> /\ ~startswith(strip(line), <<"#">>)

RECURSIVE ContentLinesOf(_)
ContentLinesOf(ls) ==
    IF ls = <<>> THEN <<>>
    ELSE (IF IsContentLine(Head(ls)) THEN <<strip(Head(ls))>> ELSE <<>>)
             \o ContentLinesOf(Tail(ls))

\* lines = [line.strip() for line in content.split("\n") if ...]
ContentLines(content) == ContentLinesOf(split(content))

is_constitution_customized(f) ==
    IF ~f.exists THEN FALSE
    ELSE IF ~f.readable THEN TRUE
    ELSE IF \E i \in 1..Len(template_markers) : Contains(f.text, template_markers[i])
         THEN FALSE
    ELSE Len(ContentLines(f.text)) > 0

\* a .specify-backup-* directory: its name, whether copytree finished, its content
Backup(name, complete, con, gx, gf) ==
    [name |-> name, complete |-> complete,
     constitution |-> con, gov_exists |-> gx, gov_files |-> gf]

BackupResult(ok, bk) == [ok |-> ok, backups |-> bk]

\* .specify-backup-<timestamp>, or with -<suffix> when that name is taken
BackupName(bk, now, ms) ==
    IF \E b \in bk : b.name = <<now>> THEN <<now, ms>> ELSE <<now>>

\* the directory made without the scaffold's files copied into it
backup_specify_directory_empty(con, gx, gf, bk, now, ms, copy) ==
    LET name == BackupName(bk, now, ms) IN
    IF \E b \in bk : b.name = name THEN BackupResult(FALSE, bk)
    ELSE IF copy = "ok" THEN BackupResult(TRUE, bk \cup {Backup(name, TRUE, NoFile, FALSE, [r \in Rules |-> NoFile])})
    ELSE IF copy = "partial"
         THEN BackupResult(FALSE, bk \cup {Backup(name, FALSE, NoFile, FALSE, [r \in Rules |-> NoFile])})
    ELSE BackupResult(FALSE, bk)

\* shutil.copytree fails when the target exists or on a filesystem error; a
\* failure part-way leaves an incomplete directory behind
backup_specify_directory(con, gx, gf, bk, now, ms, copy) ==
    LET name == BackupName(bk, now, ms) IN
    IF \E b \in bk : b.name = name THEN BackupResult(FALSE, bk)
    ELSE IF copy = "ok" THEN BackupResult(TRUE, bk \cup {Backup(name, TRUE, con, gx, gf)})
    ELSE IF copy = "partial"
         THEN BackupResult(FALSE, bk \cup {Backup(name, FALSE, NoFile, FALSE, [r \in Rules |-> NoFile])})
    ELSE BackupResult(FALSE, bk)

\* what the external initializer leaves in memory/constitution.md
Template == <<"#", " ", "[PROJECT_NAME]", "\n">>

\* subprocess.run(["specify", "init", "--here", "--force", ...]): the scaffold
\* exists afterwards; the constitution is its template or is left as it was.
\* A failed run that wrote nothing leaves everything as it was.
SpeckitResult(sx, con) == [specify_exists |-> sx, constitution |-> con]

specify_init(sx, con, rc, writes) ==
    IF writes = "template" THEN SpeckitResult(TRUE, File(Template))
    ELSE IF rc = 0 THEN SpeckitResult(TRUE, con)
    ELSE SpeckitResult(sx, con)

RunsSpeckitStep_ignores_force(sx, force, skip_speckit) == ~skip_speckit /\ ~sx

\* Step 1 is entered: not skipped, and the scaffold is absent or --force is given
RunsSpeckitStep(sx, force, skip_speckit) == ~skip_speckit /\ ~(sx /\ ~force)

\* the protection test, made only when the scaffold exists
CustomizedScaffold(sx, con) == sx /\ is_constitution_customized(con)

Refuses_never(customized, destroy_content) == FALSE

\* sys.exit(1) with the warning
Refuses(customized, destroy_content) == customized /\ ~destroy_content

MakesBackup_never(dry_run) == FALSE

\* the backup is skipped in a dry run
MakesBackup(dry_run) == ~dry_run

BackupAborts_never(ok) == FALSE

\* except OSError: sys.exit(1)
BackupAborts(ok) == ~ok

InvokesSpeckit(dry_run) == ~dry_run

InvokesMerger_always(dry_run) == TRUE

InvokesMerger(dry_run) == ~dry_run

\* ------------------------------------------------------------- call records
NoCall ==
    [op |-> "none", applied |-> "", issues |-> <<>>, customized |-> FALSE,
     exit_code |-> 0, trace |-> <<>>,
     dry_run |-> FALSE, force |-> FALSE, skip_speckit |-> FALSE, destroy_content |-> FALSE]

\* no apply call in progress
Idle == [pc |-> "idle", i |-> 0, block |-> <<>>]

\* --------------------------------------------------- scaffolds to start from
DocAlphabet == {"#", "M", "a", "\n"}

Documents == SeqsUpTo(DocAlphabet, MaxDocLen)

\* bodies of packaged rules: plain text with surrounding whitespace, and one
\* that holds the marker
BundleBodies == {<<" ", "a", "\n">>, <<"a", "#", "M">>}

\* bodies of rule files left in governance/ by an earlier run or by hand
StaleBodies == {<<"a", "a">>, <<"#", "M", " ">>}

Scaffold(con, gx, gf) == [constitution |-> con, gov_exists |-> gx, gov_files |-> gf]

NoRules == [r \in Rules |-> NoFile]

\* ------------------------------------------------ the library, called directly
InitOverlay ==
    /\ specify_exists \in BOOLEAN
    /\ bundle \in [Rules -> {NoFile} \cup {File(b) : b \in BundleBodies}]
    /\ IF specify_exists
       THEN /\ constitution \in {NoFile} \cup {File(d) : d \in Documents}
            /\ gov_exists \in BOOLEAN
            /\ IF gov_exists
               THEN gov_files \in [Rules -> {NoFile} \cup {File(b) : b \in StaleBodies}]
               ELSE gov_files = NoRules
       ELSE constitution = NoFile /\ gov_exists = FALSE /\ gov_files = NoRules
    /\ backups = {}
    /\ doc = NoFile
    /\ last = NoCall
    /\ prev = NoCall
    /\ applied_log = <<>>
    /\ start = Scaffold(constitution, gov_exists, gov_files)
    /\ ncalls = 0
    /\ frame = Idle

Apply ==
    /\ ncalls < MaxCalls
    /\ LET r == apply_governance_overlay(constitution, gov_exists, gov_files) IN
         /\ constitution' = r.constitution
         /\ gov_exists' = r.gov_exists
         /\ gov_files' = r.gov_files
         /\ last' = [NoCall EXCEPT !.op = "apply", !.applied = r.result]
         /\ applied_log' = Append(applied_log, r.result)
    /\ prev' = last
    /\ ncalls' = ncalls + 1
    /\ UNCHANGED <<specify_exists, bundle, backups, doc, start, frame>>

Check ==
    /\ ncalls < MaxCalls
    /\ last' = [NoCall EXCEPT !.op = "check",
                              !.issues = check_governance_overlay(constitution, gov_exists, gov_files)]
    /\ prev' = last
    /\ ncalls' = ncalls + 1
    /\ UNCHANGED <<fs, doc, applied_log, start, frame>>

Next == Apply \/ Check

Spec == InitOverlay /\ [][Next]_vars

\* ----------------------------------------------------- steps, as seen from outside
ApplyStep == ncalls' = ncalls + 1 /\ last'.op = "apply"

HasMarker(f) == f.exists /\ Contains(f.text, OVERLAY_MARKER)

\* ============================================================ claims: the library

\* C1 as stated: from a scaffold whose constitution exists without the marker,
\* with no marker in any bundled rule, the first apply returns True, every later
\* one returns False, and after each the constitution holds the marker once.
C1_Start ==
    /\ start.constitution.exists
    /\ ~HasMarker(start.constitution)
    /\ \A r \in Rules : ~HasMarker(bundle[r])

C1_Outcome ==
    /\ applied_log[1] = "True"
    /\ \A i \in 2..Len(applied_log) : applied_log[i] = "False"
    /\ count(constitution.text, OVERLAY_MARKER) = 1

C1_Original == (C1_Start /\ applied_log # <<>>) => C1_Outcome

\* a rule file already in governance/ that the bundle does not replace
C1_NoStaleMarker ==
    \A r \in Rules : ~bundle[r].exists => ~HasMarker(start.gov_files[r])

\* C1 (amended): the same, provided also that no rule file already in governance/
\* and missing from the bundle holds the marker.
C1_Idempotent == (C1_Start /\ C1_NoStaleMarker /\ applied_log # <<>>) => C1_Outcome

C1_Witness ==
    /\ C1_Start /\ C1_NoStaleMarker
    /\ Len(applied_log) >= 3
    /\ applied_log[3] = "False"
    /\ \E r \in Rules : start.gov_files[r].exists /\ bundle[r].exists

\* C4: apply on a scaffold without constitution.md raises FileNotFoundError and
\* changes nothing on the filesystem (no governance/ directory, no rule file).
C4_MissingPrerequisite ==
    [][(ApplyStep /\ ~constitution.exists)
          => (last'.applied = "FileNotFoundError" /\ UNCHANGED fs)]_vars

C4_Witness ==
    /\ last.op = "apply" /\ last.applied = "FileNotFoundError"
    /\ specify_exists /\ ~gov_exists
    /\ \A r \in Rules : bundle[r].exists

\* C5: when the constitution already holds the marker, apply returns False and
\* leaves the constitution, governance/ and every rule file as they were.
C5_GuardBeforeMutation ==
    [][(ApplyStep /\ HasMarker(constitution))
          => (last'.applied = "False" /\ UNCHANGED fs)]_vars

C5_Witness ==
    /\ last.op = "apply" /\ last.applied = "False"
    /\ ncalls = 1
    /\ ~gov_exists
    /\ \A r \in Rules : bundle[r].exists

\* C6: when apply returns True the new constitution is the old one followed by
\* the block; the block starts with the marker line, every rule subsection
\* comes after it, and the document ends with the attribution line.
C6_AppendOnly ==
    [][(ApplyStep /\ last'.applied = "True") =>
          LET old == constitution.text
              new == constitution'.text
              block == SubSeq(new, Len(old) + 1, Len(new))
          IN /\ constitution.exists /\ constitution'.exists
             /\ Len(new) > Len(old)
             /\ SubSeq(new, 1, Len(old)) = old
             /\ startswith(block, <<"\n", "\n">> \o OVERLAY_MARKER \o <<"\n">>)
             /\ \A j \in 1..Len(block) :
                    block[j] \in {"Governance", "Governance Rules"} => j > 2 + Len(OVERLAY_MARKER)
             /\ \E j \in 1..Len(block) : block[j] \in {"Governance", "Governance Rules"}
             /\ SubSeq(new, Len(new) - Len(Attribution) + 1, Len(new)) = Attribution
      ]_vars

C6_Witness ==
    /\ last.op = "apply" /\ last.applied = "True"
    /\ start.constitution.text # <<>>
    /\ SubSeq(constitution.text, 1, Len(start.constitution.text)) = start.constitution.text

\* C9 as stated: a check right after an apply that returned True reports nothing.
C9_Original ==
    (last.op = "check" /\ prev.op = "apply" /\ prev.applied = "True") => last.issues = <<>>

\* C9 (amended): when apply returns True on a scaffold where every rule is in
\* the bundle or already in governance/, a check of the result reports nothing.
C9_MergeThenCheck ==
    [][(/\ ApplyStep
        /\ last'.applied = "True"
        /\ \A r \in Rules : bundle[r].exists \/ gov_files[r].exists)
          => check_governance_overlay(constitution', gov_exists', gov_files') = <<>>]_vars

C9_Witness ==
    /\ last.op = "check" /\ prev.op = "apply" /\ prev.applied = "True"
    /\ last.issues = <<>>
    /\ \E r \in Rules : ~bundle[r].exists /\ start.gov_files[r].exists
    /\ \E r \in Rules : bundle[r].exists /\ ~start.gov_files[r].exists

CheckStep == ncalls' = ncalls + 1 /\ last'.op = "check"

\* C11: check reports exactly the issues that apply, all in one call: the
\* constitution missing, or present without the marker; governance/ missing, or
\* one issue for each rule file absent from it; and it changes nothing.
C11_Count(con, gx, gf) ==
    (IF ~con.exists \/ ~HasMarker(con) THEN 1 ELSE 0)
        + (IF ~gx THEN 1 ELSE Cardinality({r \in Rules : ~gf[r].exists}))

C11_CheckCompleteness ==
    [][CheckStep =>
          LET found == {last'.issues[i] : i \in 1..Len(last'.issues)} IN
          /\ "constitution.md not found" \in found <=> ~constitution.exists
          /\ "Governance overlay not in constitution.md" \in found
                <=> (constitution.exists /\ ~Contains(constitution.text, OVERLAY_MARKER))
          /\ "governance/ directory not found" \in found <=> ~gov_exists
          /\ \A r \in Rules :
                ("Missing rule: " \o r) \in found <=> (gov_exists /\ ~gov_files[r].exists)
          /\ Len(last'.issues) = Cardinality(found)
          /\ Len(last'.issues) = C11_Count(constitution, gov_exists, gov_files)
          /\ UNCHANGED fs]_vars

C11_Witness ==
    /\ last.op = "check"
    /\ last.issues = <<"Governance overlay not in constitution.md",
                       "Missing rule: architecture.md", "Missing rule: process.md">>
    /\ constitution.exists /\ gov_exists /\ gov_files["stack.md"].exists

\* C12: whatever subset of the three rules the bundle lacks, apply on a
\* constitution without the marker returns True; the block has one titled
\* subsection for each rule whose file is in governance/ after the copy, in the
\* order architecture, stack, process, and the placeholder subsection exactly
\* when none of the three is there.
C12_IsTitle(x) == x \in {"Architecture", "Stack", "Process"}

C12_Title(present, r, title) == IF r \in present THEN <<title>> ELSE <<>>

C12_Titles(present) ==
    C12_Title(present, "architecture.md", "Architecture")
        \o C12_Title(present, "stack.md", "Stack")
        \o C12_Title(present, "process.md", "Process")

C12_PartialBundle ==
    [][(ApplyStep /\ constitution.exists /\ ~HasMarker(constitution)) =>
          LET block == SubSeq(constitution'.text, Len(constitution.text) + 1,
                              Len(constitution'.text))
              present == {r \in Rules : gov_files'[r].exists}
          IN /\ last'.applied = "True"
             /\ present = {r \in Rules : bundle[r].exists \/ gov_files[r].exists}
             /\ SelectSeq(block, C12_IsTitle) = C12_Titles(present)
             /\ Contains(block, <<"Governance Rules">>) <=> present = {}
             /\ Contains(block, <<"PLACEHOLDER">>) <=> present = {}
      ]_vars

C12_Witness ==
    /\ last.op = "apply" /\ last.applied = "True"
    /\ ~bundle["stack.md"].exists
    /\ bundle["architecture.md"].exists /\ bundle["process.md"].exists
    /\ ~gov_files["stack.md"].exists
    /\ SelectSeq(constitution.text, C12_IsTitle) = <<"Architecture", "Process">>

\* the pathological case of C12: nothing bundled, nothing in governance/
C12_PlaceholderReached ==
    /\ last.op = "apply" /\ last.applied = "True"
    /\ \A r \in Rules : ~bundle[r].exists /\ ~gov_files[r].exists
    /\ Contains(constitution.text, Placeholder)

\* ============================================================ the commands

Timestamps == 1..MaxStamp
Suffixes == 0..MaxSuffix
CopyOutcomes == {"ok", "partial", "error"}

Flags == [dry_run : BOOLEAN, force : BOOLEAN, skip_speckit : BOOLEAN, destroy_content : BOOLEAN]

\* the end of an execution of init: exit code, what it called, what it left
Finish(fl, code, trace, sx, con, gx, gf, bk) ==
    /\ specify_exists' = sx
    /\ constitution' = con
    /\ gov_exists' = gx
    /\ gov_files' = gf
    /\ backups' = bk
    /\ last' = [NoCall EXCEPT !.op = "init", !.exit_code = code, !.trace = trace,
                              !.dry_run = fl.dry_run, !.force = fl.force,
                              !.skip_speckit = fl.skip_speckit,
                              !.destroy_content = fl.destroy_content]
    /\ ncalls' = ncalls + 1
    /\ UNCHANGED <<bundle, doc, prev, applied_log, start, frame>>

\* Steps 2 to 4
OverlayStep(fl, trace, sx, con, bk) ==
    IF ~sx THEN Finish(fl, 1, trace, sx, con, gov_exists, gov_files, bk)
    ELSE IF ~con.exists THEN Finish(fl, 1, trace, sx, con, gov_exists, gov_files, bk)
    ELSE IF InvokesMerger(fl.dry_run)
         THEN LET r == apply_governance_overlay(con, gov_exists, gov_files) IN
              Finish(fl, IF r.result = "FileNotFoundError" THEN 1 ELSE 0,
                     Append(trace, "merge"), sx, r.constitution, r.gov_exists, r.gov_files, bk)
    ELSE Finish(fl, 0, trace, sx, con, gov_exists, gov_files, bk)

\* the external initializer, then Steps 2 to 4 unless it failed
SpeckitStep(fl, trace, bk) ==
    IF InvokesSpeckit(fl.dry_run)
    THEN \E rc \in {0, 1}, writes \in {"template", "keep"} :
            LET r == specify_init(specify_exists, constitution, rc, writes) IN
            IF rc # 0
            THEN Finish(fl, 1, Append(trace, "speckit"), r.specify_exists, r.constitution,
                        gov_exists, gov_files, bk)
            ELSE OverlayStep(fl, Append(trace, "speckit"), r.specify_exists, r.constitution, bk)
    ELSE OverlayStep(fl, trace, specify_exists, constitution, bk)

\* the backup, then the external initializer unless the backup failed
BackupStep(fl, trace) ==
    IF MakesBackup(fl.dry_run)
    THEN \E now \in Timestamps, ms \in Suffixes, copy \in CopyOutcomes :
            LET b == backup_specify_directory(constitution, gov_exists, gov_files,
                                              backups, now, ms, copy) IN
            IF BackupAborts(b.ok)
            THEN Finish(fl, 1, Append(trace, "backup_failed"), specify_exists, constitution,
                        gov_exists, gov_files, b.backups)
            ELSE SpeckitStep(fl, Append(trace, IF b.ok THEN "backup" ELSE "backup_failed"),
                             b.backups)
    ELSE SpeckitStep(fl, trace, backups)

init(fl) ==
    IF RunsSpeckitStep(specify_exists, fl.force, fl.skip_speckit)
    THEN LET trace == IF specify_exists THEN <<"detector">> ELSE <<>>
             customized == CustomizedScaffold(specify_exists, constitution)
         IN
         IF Refuses(customized, fl.destroy_content)
         THEN Finish(fl, 1, trace, specify_exists, constitution, gov_exists, gov_files, backups)
         ELSE IF customized THEN BackupStep(fl, trace)
         ELSE SpeckitStep(fl, trace, backups)
    ELSE OverlayStep(fl, <<>>, specify_exists, constitution, backups)

InitCmd ==
    /\ ncalls < MaxCmds
    /\ \E fl \in Flags : init(fl)

\* governance check
CheckCmd ==
    /\ ncalls < MaxCmds
    /\ LET issues == check_governance_overlay(constitution, gov_exists, gov_files) IN
       last' = [NoCall EXCEPT !.op = "check",
                              !.issues = IF specify_exists THEN issues ELSE <<>>,
                              !.exit_code = IF specify_exists /\ issues = <<>> THEN 0 ELSE 1]
    /\ ncalls' = ncalls + 1
    /\ UNCHANGED <<fs, doc, prev, applied_log, start, frame>>

\* scaffolds the commands start from
\* empty, headings only, content, marker with and without content, template,
\* placeholder beside content
CliDocuments ==
    {<<>>, <<"#", "a", "\n">>, <<"a", "\n">>, <<"#", "M", "\n", "a">>, <<"#", "M">>,
     Template, <<"a", "TODO", ":">>}

InitCli ==
    /\ specify_exists \in BOOLEAN
    /\ bundle \in {NoRules, [r \in Rules |-> File(<<" ", "a", "\n">>)]}
    /\ IF specify_exists
       THEN /\ constitution \in {NoFile} \cup {File(d) : d \in CliDocuments}
            /\ gov_exists \in BOOLEAN
            /\ IF gov_exists
               THEN gov_files \in {NoRules, [r \in Rules |-> File(<<"a", "a">>)]}
               ELSE gov_files = NoRules
       ELSE constitution = NoFile /\ gov_exists = FALSE /\ gov_files = NoRules
    /\ backups = {}
    /\ doc = NoFile
    /\ last = NoCall
    /\ prev = NoCall
    /\ applied_log = <<>>
    /\ start = Scaffold(constitution, gov_exists, gov_files)
    /\ ncalls = 0
    /\ frame = Idle

NextCli == InitCmd \/ CheckCmd

SpecCli == InitCli /\ [][NextCli]_vars

\* ============================================================ claims: init
InitStep == ncalls' = ncalls + 1 /\ last'.op = "init"

InTrace(trace, e) == \E i \in 1..Len(trace) : trace[i] = e

Before(trace, a, b) == \E i, j \in 1..Len(trace) : i < j /\ trace[i] = a /\ trace[j] = b

\* C2: init without --skip-speckit, on an existing scaffold with --force, whose
\* constitution is customized, without --destroy-content, exits 1 having made no
\* backup, not run the external initializer, not created governance/ and not
\* touched the constitution.
C2_RefusedOverwrite ==
    [][(/\ InitStep
        /\ ~last'.skip_speckit /\ last'.force /\ ~last'.destroy_content
        /\ specify_exists
        /\ is_constitution_customized(constitution))
          => (/\ last'.exit_code = 1
              /\ backups' = backups
              /\ ~InTrace(last'.trace, "speckit")
              /\ ~InTrace(last'.trace, "merge")
              /\ gov_exists' = gov_exists
              /\ constitution' = constitution
              /\ UNCHANGED fs)]_vars

C2_Witness ==
    /\ last.op = "init" /\ last.exit_code = 1
    /\ last.force /\ ~last.skip_speckit /\ ~last.destroy_content /\ ~last.dry_run
    /\ ncalls = 1
    /\ is_constitution_customized(constitution)
    /\ ~gov_exists /\ backups = {}

\* C3: when a non-dry-run init invokes the external initializer on a scaffold
\* whose constitution is customized, --destroy-content was given, a backup was
\* made before the initializer ran, that execution added exactly one backup
\* directory, and its constitution is the one the scaffold held before.
C3_BackupPrecedesDestruction ==
    [][(/\ InitStep
        /\ ~last'.dry_run
        /\ InTrace(last'.trace, "speckit")
        /\ specify_exists
        /\ is_constitution_customized(constitution))
          => (/\ last'.destroy_content
              /\ Before(last'.trace, "backup", "speckit")
              /\ backups \subseteq backups'
              /\ Cardinality(backups' \ backups) = 1
              /\ \A b \in backups' \ backups :
                    b.complete /\ b.constitution = constitution)]_vars

C3_Witness ==
    /\ last.op = "init" /\ last.destroy_content
    /\ Before(last.trace, "backup", "speckit")
    /\ Cardinality(backups) = 2
    /\ \E b \in backups : Len(b.name) = 2 /\ b.complete /\ b.constitution.text = <<"a", "\n">>
    /\ constitution = File(Template)

\* C7 as stated, its gate: in every init, whatever --force, --skip-speckit and
\* --dry-run are, a customized constitution without --destroy-content makes init
\* exit 1 without invoking the merger.
C7_Original ==
    [][(InitStep /\ is_constitution_customized(constitution) /\ ~last'.destroy_content)
          => (last'.exit_code = 1 /\ ~InTrace(last'.trace, "merge"))]_vars

\* C7 (amended): in every init that enters the external-initializer step on an
\* existing scaffold (no --skip-speckit, --force), with or without --dry-run, the
\* detector is consulted first, and a customized constitution without
\* --destroy-content makes init exit 1 without invoking the merger.
C7_CustomizationGate ==
    [][(InitStep /\ ~last'.skip_speckit /\ last'.force /\ specify_exists) =>
          (/\ last'.trace # <<>> /\ last'.trace[1] = "detector"
           /\ InTrace(last'.trace, "merge") => Before(last'.trace, "detector", "merge")
           /\ (is_constitution_customized(constitution) /\ ~last'.destroy_content)
                 => (last'.exit_code = 1 /\ ~InTrace(last'.trace, "merge")))]_vars

C7_Witness ==
    /\ last.op = "init" /\ last.exit_code = 1
    /\ last.force /\ ~last.skip_speckit /\ ~last.destroy_content /\ last.dry_run
    /\ last.trace = <<"detector">>
    /\ is_constitution_customized(constitution)

\* C8: when the backup fails (customized constitution, --destroy-content, no
\* dry run), init exits 1, neither the external initializer nor the merger is
\* invoked, and the scaffold is as it was.
C8_BackupFailureAborts ==
    [][(InitStep /\ InTrace(last'.trace, "backup_failed")) =>
          (/\ last'.destroy_content /\ ~last'.dry_run
           /\ is_constitution_customized(constitution)
           /\ last'.exit_code = 1
           /\ ~InTrace(last'.trace, "speckit")
           /\ ~InTrace(last'.trace, "merge")
           /\ constitution' = constitution
           /\ UNCHANGED <<specify_exists, gov_exists, gov_files, bundle>>)]_vars

C8_Witness ==
    /\ last.op = "init" /\ last.exit_code = 1
    /\ last.trace = <<"detector", "backup_failed">>
    /\ \E b \in backups : ~b.complete
    /\ is_constitution_customized(constitution)

\* C13: an init with --dry-run, whatever the other flags and the scaffold, makes
\* no backup, does not run the external initializer, does not create
\* governance/ or a rule file and leaves the constitution as it was.
C13_DryRunNoChanges ==
    [][(InitStep /\ last'.dry_run) =>
          (/\ backups' = backups
           /\ ~InTrace(last'.trace, "backup") /\ ~InTrace(last'.trace, "backup_failed")
           /\ ~InTrace(last'.trace, "speckit")
           /\ ~InTrace(last'.trace, "merge")
           /\ gov_exists' = gov_exists
           /\ gov_files' = gov_files
           /\ constitution' = constitution
           /\ UNCHANGED fs)]_vars

C13_Witness ==
    /\ last.op = "init" /\ last.exit_code = 0
    /\ last.dry_run /\ last.force /\ last.destroy_content /\ ~last.skip_speckit
    /\ last.trace = <<"detector">>
    /\ is_constitution_customized(constitution)
    /\ ~HasMarker(constitution)
    /\ ~gov_exists /\ backups = {}
    /\ \A r \in Rules : bundle[r].exists

\* ============================================================ the detector alone
InputAlphabet ==
    {"#", " ", "\n", "a", ":", "TODO", "FIXME", "[PROJECT_NAME]", "[PRINCIPLE_1_NAME]",
     "[PRINCIPLE_2_NAME]", "[YOUR_PROJECT]", "[TEAM_NAME]"}

Inputs == SeqsUpTo(InputAlphabet, MaxInputLen)

InitDetector ==
    /\ doc \in {NoFile} \cup {File(t) : t \in Inputs} \cup {Unreadable(t) : t \in Inputs}
    /\ specify_exists = FALSE
    /\ constitution = NoFile
    /\ gov_exists = FALSE
    /\ gov_files = NoRules
    /\ bundle = NoRules
    /\ backups = {}
    /\ last = NoCall
    /\ prev = NoCall
    /\ applied_log = <<>>
    /\ start = Scaffold(NoFile, FALSE, NoRules)
    /\ ncalls = 0
    /\ frame = Idle

Detect ==
    /\ ncalls < 1
    /\ last' = [NoCall EXCEPT !.op = "is_customized",
                              !.customized = is_constitution_customized(doc)]
    /\ prev' = last
    /\ ncalls' = ncalls + 1
    /\ UNCHANGED <<fs, doc, applied_log, start, frame>>

SpecDetector == InitDetector /\ [][Detect]_vars

\* C10: the detector answers false for a missing document, true for one that
\* cannot be read, false when any placeholder occurs anywhere, and otherwise
\* true exactly when some line has a first non-blank character other than "#".
C10_Placeholder(t) ==
    \E i \in 1..Len(t) :
        \/ t[i] \in {"[PROJECT_NAME]", "[PRINCIPLE_1_NAME]", "[PRINCIPLE_2_NAME]",
                     "[YOUR_PROJECT]", "[TEAM_NAME]"}
        \/ t[i] \in {"TODO", "FIXME"} /\ i < Len(t) /\ t[i + 1] = ":"

C10_SameLine(t, j, i) == \A k \in j..(i - 1) : t[k] # "\n"

C10_HasContentLine(t) ==
    \E i \in 1..Len(t) :
        /\ t[i] \notin {" ", "\n", "#"}
        /\ \A j \in 1..(i - 1) : C10_SameLine(t, j, i) => t[j] = " "

C10_Expected(f) ==
    IF ~f.exists THEN FALSE
    ELSE IF ~f.readable THEN TRUE
    ELSE IF C10_Placeholder(f.text) THEN FALSE
    ELSE C10_HasContentLine(f.text)

StepAfter_marker_first(pc) ==
    CASE pc = "guard" -> "build"
      [] pc = "build" -> "append"
      [] pc = "append" -> "mkdir"
      [] pc = "mkdir" -> "copy"
      [] pc = "copy" -> "return"

StepAfter(pc) ==
    CASE pc = "guard" -> "mkdir"
      [] pc = "mkdir" -> "copy"
      [] pc = "copy" -> "build"
      [] pc = "build" -> "append"
      [] pc = "append" -> "return"

\* one turn of the copy loop
CopyRule(i, gf) == [gf EXCEPT ![rule_files[i]] = CopyRules(gf)[rule_files[i]]]

\* the call is over: its result reaches the caller
Returns(res) ==
    /\ last' = [NoCall EXCEPT !.op = "apply", !.applied = res]
    /\ prev' = last
    /\ applied_log' = Append(applied_log, res)
    /\ frame' = Idle

\* the call goes on with the statement at pc
Goes(pc, i, block) ==
    /\ frame' = [pc |-> pc, i |-> i, block |-> block]
    /\ UNCHANGED <<last, prev, applied_log>>

StepDocuments == {<<>>, <<"a", "\n">>, <<"#", "M">>, <<"M", "#">>}

InitSteps ==
    /\ specify_exists = TRUE
    /\ bundle \in [Rules -> {NoFile, File(<<" ", "a", "\n">>)}]
    /\ constitution \in {NoFile} \cup {File(d) : d \in StepDocuments}
    /\ gov_exists \in BOOLEAN
    /\ IF gov_exists
       THEN gov_files \in [Rules -> {NoFile, File(<<"a", "a">>)}]
       ELSE gov_files = NoRules
    /\ backups = {}
    /\ doc = NoFile
    /\ last = NoCall
    /\ prev = NoCall
    /\ applied_log = <<>>
    /\ start = Scaffold(constitution, gov_exists, gov_files)
    /\ ncalls = 0
    /\ frame = Idle

\* the call is made: "if not constitution.exists(): raise FileNotFoundError"
ApplyEnter ==
    /\ frame.pc = "idle"
    /\ ncalls < MaxCalls
    /\ ncalls' = ncalls + 1
    /\ IF ~constitution.exists
       THEN Returns("FileNotFoundError")
       ELSE Goes("guard", 0, <<>>)
    /\ UNCHANGED <<fs, doc, start>>

\* "if OVERLAY_MARKER in content: return False"
ApplyGuard ==
    /\ frame.pc = "guard"
    /\ IF AlreadyApplied(constitution.text)
       THEN Returns("False")
       ELSE Goes(StepAfter("guard"), 0, <<>>)
    /\ UNCHANGED <<fs, doc, start, ncalls>>

\* "gov_dir.mkdir(exist_ok=True)"
ApplyMkdir ==
    /\ frame.pc = "mkdir"
    /\ gov_exists' = TRUE
    /\ Goes(StepAfter("mkdir"), 1, frame.block)
    /\ UNCHANGED <<specify_exists, constitution, gov_files, bundle, backups, doc, start, ncalls>>

\* one rule of "for rule_name in rule_files:"
ApplyCopy ==
    /\ frame.pc = "copy"
    /\ gov_files' = CopyRule(frame.i, gov_files)
    /\ IF frame.i < Len(rule_files)
       THEN Goes("copy", frame.i + 1, frame.block)
       ELSE Goes(StepAfter("copy"), 0, frame.block)
    /\ UNCHANGED <<specify_exists, constitution, gov_exists, bundle, backups, doc, start, ncalls>>

\* sections and governance_section are built from the governance directory
ApplyBuild ==
    /\ frame.pc = "build"
    /\ Goes(StepAfter("build"), 0, governance_section(Sections(gov_files)))
    /\ UNCHANGED <<fs, doc, start, ncalls>>

\* "with open(constitution, "a") as f: f.write(governance_section)"
ApplyAppend ==
    /\ frame.pc = "append"
    /\ constitution' = File(AppendText(constitution.text, frame.block))
    /\ Goes(StepAfter("append"), 0, <<>>)
    /\ UNCHANGED <<specify_exists, gov_exists, gov_files, bundle, backups, doc, start, ncalls>>

\* "return True"
ApplyReturn ==
    /\ frame.pc = "return"
    /\ Returns("True")
    /\ UNCHANGED <<fs, doc, start, ncalls>>

\* the execution stops before the statement at frame.pc: nothing returns
Interrupt ==
    /\ frame.pc # "idle"
    /\ last' = [NoCall EXCEPT !.op = "apply", !.applied = "interrupted", !.trace = <<frame.pc>>]
    /\ prev' = last
    /\ frame' = Idle
    /\ UNCHANGED <<fs, doc, applied_log, start, ncalls>>

NextSteps ==
    \/ ApplyEnter
    \/ ApplyGuard
    \/ ApplyMkdir
    \/ ApplyCopy
    \/ ApplyBuild
    \/ ApplyAppend
    \/ ApplyReturn
    \/ Interrupt

SpecSteps == InitSteps /\ [][NextSteps]_vars

\* ------------------------------------------------- claims about the ordering
\* every rule of the bundle is in the governance directory as bundled
C14_Copied == \A r \in Rules : bundle[r].exists => gov_files[r] = File(bundle[r].text)

\* the statements between the guard and the append, the append included
C14_BeforeAppend == {"mkdir", "copy", "build", "append"}

\* C14: from a constitution without the marker, in every state of an execution
\* of apply_governance_overlay, stopped executions included, the marker in the
\* constitution implies that the governance directory exists and holds every
\* bundled rule; an execution that has passed the guard and not yet appended
\* sees no marker, so stopping it leaves the marker absent; and the call
\* completed after an execution stopped before its append returns True with
\* the rules copied and the marker written.
C14_MarkerLast ==
    /\ (start.constitution.exists /\ ~HasMarker(start.constitution) /\ HasMarker(constitution))
           => (gov_exists /\ C14_Copied)
    /\ frame.pc \in C14_BeforeAppend => ~HasMarker(constitution)
    /\ (last.op = "apply" /\ last.applied # "interrupted"
            /\ prev.applied = "interrupted" /\ prev.trace[1] \in C14_BeforeAppend)
           => (last.applied = "True" /\ gov_exists /\ C14_Copied /\ HasMarker(constitution))

\* an execution stopped after the copy loop and before the append, then a call
\* that completes
C14_Witness ==
    /\ ~start.gov_exists
    /\ \A r \in Rules : bundle[r].exists
    /\ prev.applied = "interrupted"
    /\ prev.trace = <<"append">>
    /\ last.applied = "True"
    /\ applied_log = <<"True">>

====
